---- MODULE Spec2Model ----
(***************************************************************************)
(* Model of the Personal Finance Manager: Transaction and Budget entities  *)
(* and the FinanceManager ledger with its CSV / JSON persistence.          *)
(*                                                                         *)
(* Python values that cross an isinstance check are tagged records         *)
(* [t |-> type name, v |-> payload].  Amounts are floats in the source;    *)
(* the model uses whole numbers, on which float addition is exact.         *)
(***************************************************************************)
EXTENDS Integers, Sequences, FiniteSets, TLC

VARIABLES
    transactions,      \* self.transactions: list of Transaction objects
    budgets,           \* self.budgets: list of Budget objects
    transaction_file,  \* data/transactions.csv on disk
    budget_file,       \* data/budgets.json on disk
    lastOp,            \* name of the operation that ran last
    result,            \* the exception it raised to its caller, if any
    output             \* what it printed

vars == <<transactions, budgets, transaction_file, budget_file, lastOp, result, output>>

\* ---------------------------------------------------------------- bounds
MaxTx == 2        \* longest transaction list saved and reloaded in the round trip
MaxHeldTx == 1    \* longest transaction list the full ledger's caller builds
MaxSpent == 2     \* largest spent_amount the driver lets a budget reach
MaxRows == 2      \* data rows / records of an externally written file
MaxLedgerTx == 4  \* longest transaction list of the ledger without persistence

\* ---------------------------------------------------------- Python values
Str(s) == [t |-> "str", v |-> s]
Num(n) == [t |-> "num", v |-> n]
Dt(ymd, tod) == [t |-> "datetime", v |-> [ymd |-> ymd, tod |-> tod]]
None == [t |-> "NoneType", v |-> 0]

NoExc == [exc |-> "none", msg |-> ""]
Raise(e, m) == [exc |-> e, msg |-> m]

\* str.strip() leaves nothing
BlankStrings == {"", " ", "\t"}
IsBlank(s) == s \in BlankStrings

\* datetime.strptime(s, "%Y-%m-%d"): the strings it accepts and the day each
\* names (a one-digit month or day is accepted); the time of day is midnight.
DateTable ==
    { <<"2025-06-25", "2025-06-25">>,
      <<"2025-07-01", "2025-07-01">>,
      <<"2025-7-1", "2025-07-01">> }

strptime(s) ==
    IF \E p \in DateTable : p[1] = s
    THEN [exc |-> "none",
          obj |-> [ymd |-> (CHOOSE p \in DateTable : p[1] = s)[2], tod |-> 0]]
    ELSE [exc |-> "ValueError", obj |-> [ymd |-> "", tod |-> 0]]

\* date.strftime("%Y-%m-%d"): the day, without the time of day
strftime(d) == d.ymd

\* float(s) on a string: the strings it accepts (surrounding blanks and a
\* missing fraction are accepted) and the number each denotes.
FloatTable ==
    { <<"0.0", 0>>, <<"1.0", 1>>, <<"2.0", 2>>, <<"3.0", 3>>, <<"-1.0", -1>>,
      <<"1", 1>>, <<" 2.0 ", 2>> }

float_of_str(s) ==
    IF \E p \in FloatTable : p[1] = s
    THEN [exc |-> "none", obj |-> (CHOOSE p \in FloatTable : p[1] = s)[2]]
    ELSE [exc |-> "ValueError", obj |-> 0]

\* str(x) of a float, as csv.writer writes a non-string field
str_of_float(x) ==
    CASE x = 0 -> "0.0"
      [] x = 1 -> "1.0"
      [] x = 2 -> "2.0"
      [] x = 3 -> "3.0"
      [] x = -1 -> "-1.0"

\* ------------------------------------------------------------ Transaction
NoTransaction ==
    [date |-> [ymd |-> "", tod |-> 0], transaction_type |-> "", category |-> "",
     amount |-> 0, description |-> ""]

\* mutant: Transaction.__init__ without the check that amount is not negative
Transaction_init_accepts_negative(date, transaction_type, category, amount, description) ==
    LET parsed == IF date.t = "str" THEN strptime(date.v)
                  ELSE [exc |-> "none", obj |-> date.v]
        fail(e, m) == [exc |-> e, msg |-> m, obj |-> NoTransaction]
    IN  IF date.t = "str" /\ parsed.exc # "none"
            THEN fail("ValueError", "Invalid date format. Use YYYY-MM-DD")
        ELSE IF date.t \notin {"str", "datetime"}
            THEN fail("TypeError", "Date must be datetime or string in YYYY-MM-DD format")
        ELSE IF ~(transaction_type.t = "str" /\ transaction_type.v \in {"income", "expense"})
            THEN fail("ValueError", "Transaction type must be 'income' or 'expense'")
        ELSE IF category.t # "str" \/ IsBlank(category.v)
            THEN fail("ValueError", "Category must be a non-empty string")
        ELSE IF amount.t # "num"
            THEN fail("TypeError", "Amount must be a number")
        ELSE IF description.t # "str"
            THEN fail("ValueError", "Description must be a string.")
        ELSE [exc |-> "none", msg |-> "",
              obj |-> [date |-> parsed.obj,
                       transaction_type |-> transaction_type.v,
                       category |-> category.v,
                       amount |-> amount.v,
                       description |-> description.v]]

\* Transaction.__init__: [exc, msg, obj]; the checks run in source order
Transaction_init(date, transaction_type, category, amount, description) ==
    LET parsed == IF date.t = "str" THEN strptime(date.v)
                  ELSE [exc |-> "none", obj |-> date.v]
        fail(e, m) == [exc |-> e, msg |-> m, obj |-> NoTransaction]
    IN  IF date.t = "str" /\ parsed.exc # "none"
            THEN fail("ValueError", "Invalid date format. Use YYYY-MM-DD")
        ELSE IF date.t \notin {"str", "datetime"}
            THEN fail("TypeError", "Date must be datetime or string in YYYY-MM-DD format")
        ELSE IF ~(transaction_type.t = "str" /\ transaction_type.v \in {"income", "expense"})
            THEN fail("ValueError", "Transaction type must be 'income' or 'expense'")
        ELSE IF category.t # "str" \/ IsBlank(category.v)
            THEN fail("ValueError", "Category must be a non-empty string")
        ELSE IF amount.t # "num"
            THEN fail("TypeError", "Amount must be a number")
        ELSE IF amount.v < 0
            THEN fail("ValueError", "Amount must be a non-negative number")
        ELSE IF description.t # "str"
            THEN fail("ValueError", "Description must be a string.")
        ELSE [exc |-> "none", msg |-> "",
              obj |-> [date |-> parsed.obj,
                       transaction_type |-> transaction_type.v,
                       category |-> category.v,
                       amount |-> amount.v,
                       description |-> description.v]]

\* Transaction.get_details
Transaction_get_details(tx) ==
    [date |-> strftime(tx.date),
     transaction_type |-> tx.transaction_type,
     category |-> tx.category,
     amount |-> tx.amount,
     description |-> tx.description]

\* ----------------------------------------------------------------- Budget
NoBudget == [category |-> "", allocated_amount |-> 0, spent_amount |-> 0, period |-> ""]

\* Budget.__init__: [exc, msg, obj]
Budget_init(category, allocated_amount, period) ==
    LET fail(e, m) == [exc |-> e, msg |-> m, obj |-> NoBudget]
    IN  IF category.t # "str" \/ IsBlank(category.v)
            THEN fail("ValueError", "Category must be a non-empty string")
        ELSE IF allocated_amount.t # "num"
            THEN fail("TypeError", "Allocated amount must be a number")
        ELSE IF allocated_amount.v <= 0
            THEN fail("ValueError", "Allocated amount must be positive")
        ELSE IF period.t # "str"
            THEN fail("TypeError", "Period must be a string")
        ELSE [exc |-> "none", msg |-> "",
              obj |-> [category |-> category.v,
                       allocated_amount |-> allocated_amount.v,
                       spent_amount |-> 0,
                       period |-> period.v]]

\* mutant: add_expense takes the amount off spent_amount
Budget_add_expense_subtracts(budget, tx) ==
    IF tx.transaction_type # "expense"
        THEN [exc |-> "ValueError", msg |-> "Transaction must be an expense", obj |-> budget]
    ELSE IF tx.category # budget.category
        THEN [exc |-> "ValueError", msg |-> "Transaction category must match budget category",
              obj |-> budget]
    ELSE [exc |-> "none", msg |-> "",
          obj |-> [budget EXCEPT !.spent_amount = @ - tx.amount]]

\* mutant: add_expense stops counting at allocated_amount
Budget_add_expense_capped(budget, tx) ==
    IF tx.transaction_type # "expense"
        THEN [exc |-> "ValueError", msg |-> "Transaction must be an expense", obj |-> budget]
    ELSE IF tx.category # budget.category
        THEN [exc |-> "ValueError", msg |-> "Transaction category must match budget category",
              obj |-> budget]
    ELSE [exc |-> "none", msg |-> "",
          obj |-> [budget EXCEPT !.spent_amount =
                      IF @ + tx.amount > budget.allocated_amount /\ @ <= budget.allocated_amount
                      THEN budget.allocated_amount ELSE @ + tx.amount]]

\* Budget.add_expense on a Transaction object: [exc, msg, obj]
Budget_add_expense(budget, tx) ==
    IF tx.transaction_type # "expense"
        THEN [exc |-> "ValueError", msg |-> "Transaction must be an expense", obj |-> budget]
    ELSE IF tx.category # budget.category
        THEN [exc |-> "ValueError", msg |-> "Transaction category must match budget category",
              obj |-> budget]
    ELSE [exc |-> "none", msg |-> "",
          obj |-> [budget EXCEPT !.spent_amount = @ + tx.amount]]

\* Budget.get_remaining
Budget_get_remaining(budget) == budget.allocated_amount - budget.spent_amount

\* Budget.get_details: the record json.dump writes
Budget_get_details(budget) ==
    [category |-> Str(budget.category),
     allocated_amount |-> Num(budget.allocated_amount),
     spent_amount |-> Num(budget.spent_amount),
     remaining |-> Num(Budget_get_remaining(budget)),
     period |-> Str(budget.period)]

\* ------------------------------------------------------------------ files
AbsentFile == [exists |-> FALSE, rows |-> <<>>]
FileOf(rows) == [exists |-> TRUE, rows |-> rows]

\* a budget file whose text is a cut-off piece of a JSON array (0 bytes
\* included): json.load cannot parse it
TruncatedJsonFile == [exists |-> TRUE, rows |-> <<>>, truncated |-> TRUE]

\* What the operating system does to one open-and-transfer of a file: nothing
\* fails, open() raises OSError / PermissionError, or a write or read raises it
\* after open() succeeded, when `lines` whole lines and `chars` characters of
\* the next line have been transferred.
Ok == [fails |-> "never", lines |-> 0, chars |-> 0]
OpenFails == [fails |-> "open", lines |-> 0, chars |-> 0]
TransferFails(lines, chars) == [fails |-> "transfer", lines |-> lines, chars |-> chars]

\* os.path.exists cannot stat the path (its directory is not searchable, say)
\* and answers False, whether or not the file is on disk
ExistsFails == [fails |-> "exists", lines |-> 0, chars |-> 0]

\* outcomes of reading a file of `n` lines: the file is not seen, the open is
\* refused, the read fails before any line, or after k of them were delivered
ReadOutcomes(n) == {Ok, ExistsFails, OpenFails} \cup { TransferFails(k, 0) : k \in 0..n }

\* outcomes of json.dump into the opened file: wherever the write stops, the
\* text left in the file is not JSON
JsonWriteOutcomes == {Ok, OpenFails, TransferFails(0, 0)}

Say(m, a) == [msg |-> m, arg |-> a]

\* the header row save_transactions writes
Header == <<"date", "transaction_type", "category", "amount", "description">>

\* one csv.writer row of save_transactions: every field as text
csv_row(tx) ==
    LET details == Transaction_get_details(tx)
    IN  <<details.date, details.transaction_type, details.category,
          str_of_float(details.amount), details.description>>

\* csv.writer puts a field in quotes when it holds one of these characters
CsvSpecial == {",", "\"", "\r", "\n"}

needs_quotes(f) == \E i \in 1..Len(f) : SubSeq(f, i, i) \in CsvSpecial

\* the number of characters csv.writer writes for a field: a quoted field has
\* its two quotes and every quote inside it twice
csv_field_len(f) ==
    IF needs_quotes(f)
    THEN 2 + Len(f) + Cardinality({ i \in 1..Len(f) : SubSeq(f, i, i) = "\"" })
    ELSE Len(f)

\* the characters of a line before its "\r\n": the fields and the commas
RECURSIVE csv_line_len(_)
csv_line_len(row) ==
    IF row = <<>> THEN 0
    ELSE IF Len(row) = 1 THEN csv_field_len(row[1])
    ELSE csv_field_len(row[1]) + 1 + csv_line_len(Tail(row))

\* what csv.reader makes of the first m characters that follow the opening
\* quote of the quoted field f, the file ending there
RECURSIVE quoted_prefix(_, _)
quoted_prefix(f, m) ==
    IF f = "" \/ m <= 0 THEN ""
    ELSE LET c == SubSeq(f, 1, 1)
             cost == IF c = "\"" THEN 2 ELSE 1
         IN  IF cost > m THEN ""
             ELSE c \o quoted_prefix(SubSeq(f, 2, Len(f)), m - cost)

\* the field csv.reader finds in the first n characters written for field f
torn_field(f, n) == IF needs_quotes(f) THEN quoted_prefix(f, n - 1) ELSE SubSeq(f, 1, n)

\* the fields csv.reader finds in the first n characters of the line written
\* for `row` (n >= 1)
RECURSIVE TornFields(_, _)
TornFields(row, n) ==
    IF row = <<>> THEN <<>>
    ELSE IF n <= csv_field_len(row[1]) THEN <<torn_field(row[1], n)>>
    ELSE <<row[1]>> \o TornFields(Tail(row), n - csv_field_len(row[1]) - 1)

\* the rows of a file opened with mode 'w' in which the write of `rows` failed
\* after io.lines whole lines and io.chars characters of the next one
WrittenBeforeFailure(rows, io) ==
    LET k == IF io.lines < Len(rows) THEN io.lines ELSE Len(rows)
    IN  SubSeq(rows, 1, k)
        \o (IF k < Len(rows) /\ io.chars > 0
            THEN <<TornFields(rows[k + 1], io.chars)>>
            ELSE <<>>)

\* outcomes of writing `rows`: the write can stop after any whole line and any
\* number of characters of the next one, its "\r" included
WriteOutcomes(rows) ==
    {Ok, OpenFails}
    \cup UNION { { TransferFails(k - 1, c) : c \in 0..(csv_line_len(rows[k]) + 1) } :
                   k \in 1..Len(rows) }

\* load_transactions opens the file without newline='': a carriage return,
\* alone or before a line feed, is read back as a line feed.
RECURSIVE universal_newlines(_)
universal_newlines(s) ==
    IF s = "" THEN ""
    ELSE IF Len(s) >= 2 /\ SubSeq(s, 1, 2) = "\r\n"
    THEN "\n" \o universal_newlines(SubSeq(s, 3, Len(s)))
    ELSE IF SubSeq(s, 1, 1) = "\r"
    THEN "\n" \o universal_newlines(SubSeq(s, 2, Len(s)))
    ELSE SubSeq(s, 1, 1) \o universal_newlines(SubSeq(s, 2, Len(s)))

csv_read_row(row) == [i \in 1..Len(row) |-> universal_newlines(row[i])]

\* the body of load_transactions' row loop for one row: [keep, tx]
load_row(row) ==
    IF Len(row) # 5 THEN [keep |-> FALSE, tx |-> NoTransaction]
    ELSE LET parsed_date == strptime(row[1])
             amount == float_of_str(row[4])
             made == Transaction_init(Dt(parsed_date.obj.ymd, parsed_date.obj.tod),
                                      Str(row[2]), Str(row[3]), Num(amount.obj), Str(row[5]))
         IN  IF parsed_date.exc # "none" \/ amount.exc # "none" \/ made.exc # "none"
             THEN [keep |-> FALSE, tx |-> NoTransaction]
             ELSE [keep |-> TRUE, tx |-> made.obj]

\* mutant: the row loop leaves at the first invalid row instead of going on
RECURSIVE load_rows_stops_at_bad_row(_, _, _)
load_rows_stops_at_bad_row(rows, txs, out) ==
    IF rows = <<>> THEN [txs |-> txs, out |-> out]
    ELSE LET row == csv_read_row(Head(rows))
             r == load_row(row)
         IN  IF r.keep
             THEN load_rows_stops_at_bad_row(Tail(rows), Append(txs, r.tx), out)
             ELSE [txs |-> txs,
                   out |-> Append(out, Say("Skipping invalid transaction row", row))]

\* load_transactions' loop over the rows after the header: [txs, out]
RECURSIVE load_rows(_, _, _)
load_rows(rows, txs, out) ==
    IF rows = <<>> THEN [txs |-> txs, out |-> out]
    ELSE LET row == csv_read_row(Head(rows))
             r == load_row(row)
         IN  IF r.keep
             THEN load_rows(Tail(rows), Append(txs, r.tx), out)
             ELSE load_rows(Tail(rows), txs,
                            Append(out, Say("Skipping invalid transaction row", row)))

\* mutant: the loop restores spent_amount from the stored remaining
load_record_spent_from_remaining(budget_dict) ==
    LET skip == [how |-> "skip", exc |-> NoExc, obj |-> NoBudget]
    IN  IF ~({"category", "allocated_amount", "period"} \subseteq DOMAIN budget_dict)
            THEN skip
        ELSE LET made == Budget_init(budget_dict["category"],
                                     budget_dict["allocated_amount"],
                                     budget_dict["period"])
             IN  IF made.exc = "ValueError" THEN skip
                 ELSE IF made.exc # "none"
                     THEN [how |-> "raise", exc |-> Raise(made.exc, made.msg), obj |-> NoBudget]
                 ELSE IF "remaining" \notin DOMAIN budget_dict THEN skip
                 ELSE [how |-> "load", exc |-> NoExc,
                       obj |-> [made.obj EXCEPT
                                   !.spent_amount = budget_dict["remaining"].v]]

\* the body of load_budgets' loop for one record: what happens to it
\* ("load", "skip", or "raise" when the exception is not caught) and the Budget
load_record(budget_dict) ==
    LET skip == [how |-> "skip", exc |-> NoExc, obj |-> NoBudget]
    IN  IF ~({"category", "allocated_amount", "period"} \subseteq DOMAIN budget_dict)
            THEN skip
        ELSE LET made == Budget_init(budget_dict["category"],
                                     budget_dict["allocated_amount"],
                                     budget_dict["period"])
             IN  IF made.exc = "ValueError" THEN skip
                 ELSE IF made.exc # "none"
                     THEN [how |-> "raise", exc |-> Raise(made.exc, made.msg), obj |-> NoBudget]
                 ELSE IF "spent_amount" \notin DOMAIN budget_dict THEN skip
                 ELSE [how |-> "load", exc |-> NoExc,
                       obj |-> [made.obj EXCEPT
                                   !.spent_amount = budget_dict["spent_amount"].v]]

\* load_budgets' loop over the stored array: [buds, out, exc]
RECURSIVE load_records(_, _, _)
load_records(data, buds, out) ==
    IF data = <<>> THEN [buds |-> buds, out |-> out, exc |-> NoExc]
    ELSE LET r == load_record(Head(data))
         IN  CASE r.how = "load" -> load_records(Tail(data), Append(buds, r.obj), out)
               [] r.how = "skip" ->
                    load_records(Tail(data), buds,
                                 Append(out, Say("Skipping invalid budget entry", Head(data))))
               [] r.how = "raise" -> [buds |-> buds, out |-> out, exc |-> r.exc]

\* ----------------------------------------------------------------- Ledger
\* index of the first budget of the category, 0 when there is none
FirstBudget(buds, category) ==
    IF \E i \in 1..Len(buds) : buds[i].category = category
    THEN CHOOSE i \in 1..Len(buds) :
            /\ buds[i].category = category
            /\ \A j \in 1..(i - 1) : buds[j].category # category
    ELSE 0

\* mutant: an expense without a budget is refused instead of recorded
add_transaction_requires_budget(date, transaction_type, category, amount, description) ==
    LET made == Transaction_init(date, transaction_type, category, amount, description)
        i == FirstBudget(budgets, made.obj.category)
    IN  /\ lastOp' = "add_transaction"
        /\ UNCHANGED <<transaction_file, budget_file>>
        /\ IF made.exc # "none"
           THEN /\ result' = Raise(made.exc, made.msg)
                /\ output' = <<>>
                /\ UNCHANGED <<transactions, budgets>>
           ELSE IF made.obj.transaction_type # "expense"
           THEN /\ transactions' = Append(transactions, made.obj)
                /\ result' = NoExc
                /\ output' = <<>>
                /\ UNCHANGED budgets
           ELSE IF i = 0
           THEN /\ result' = Raise("ValueError", "No budget found for category")
                /\ output' = <<>>
                /\ UNCHANGED <<transactions, budgets>>
           ELSE LET added == Budget_add_expense(budgets[i], made.obj)
                IN  /\ transactions' = Append(transactions, made.obj)
                    /\ result' = Raise(added.exc, added.msg)
                    /\ output' = <<>>
                    /\ budgets' = [budgets EXCEPT ![i] = added.obj]

\* FinanceManager.add_transaction
add_transaction(date, transaction_type, category, amount, description) ==
    LET made == Transaction_init(date, transaction_type, category, amount, description)
        i == FirstBudget(budgets, made.obj.category)
    IN  /\ lastOp' = "add_transaction"
        /\ UNCHANGED <<transaction_file, budget_file>>
        /\ IF made.exc # "none"
           THEN /\ result' = Raise(made.exc, made.msg)
                /\ output' = <<>>
                /\ UNCHANGED <<transactions, budgets>>
           ELSE /\ transactions' = Append(transactions, made.obj)
                /\ IF made.obj.transaction_type # "expense"
                   THEN /\ result' = NoExc
                        /\ output' = <<>>
                        /\ UNCHANGED budgets
                   ELSE IF i = 0
                   THEN /\ result' = NoExc
                        /\ output' = <<Say("No budget found for category", made.obj.category)>>
                        /\ UNCHANGED budgets
                   ELSE LET added == Budget_add_expense(budgets[i], made.obj)
                        IN  /\ result' = Raise(added.exc, added.msg)
                            /\ output' = <<>>
                            /\ budgets' = [budgets EXCEPT ![i] = added.obj]

\* mutant: the duplicate check looks at the first budget only
add_budget_checks_first_only(category, allocated_amount, period) ==
    LET made == Budget_init(category, allocated_amount, period)
    IN  /\ lastOp' = "add_budget"
        /\ output' = <<>>
        /\ UNCHANGED <<transactions, transaction_file, budget_file>>
        /\ IF budgets # <<>> /\ Str(budgets[1].category) = category
           THEN /\ result' = Raise("ValueError", "Budget for category already exists")
                /\ UNCHANGED budgets
           ELSE IF made.exc # "none"
           THEN /\ result' = Raise(made.exc, made.msg)
                /\ UNCHANGED budgets
           ELSE /\ result' = NoExc
                /\ budgets' = Append(budgets, made.obj)

\* mutant: a new budget starts from the expenses already recorded in its
\* category instead of from zero
RECURSIVE ExpensesOf(_, _)
ExpensesOf(txs, category) ==
    IF txs = <<>> THEN 0
    ELSE (IF Head(txs).transaction_type = "expense" /\ Head(txs).category = category
          THEN Head(txs).amount ELSE 0) + ExpensesOf(Tail(txs), category)

add_budget_backfills(category, allocated_amount, period) ==
    LET made == Budget_init(category, allocated_amount, period)
    IN  /\ lastOp' = "add_budget"
        /\ output' = <<>>
        /\ UNCHANGED <<transactions, transaction_file, budget_file>>
        /\ IF \E i \in 1..Len(budgets) : Str(budgets[i].category) = category
           THEN /\ result' = Raise("ValueError", "Budget for category already exists")
                /\ UNCHANGED budgets
           ELSE IF made.exc # "none"
           THEN /\ result' = Raise(made.exc, made.msg)
                /\ UNCHANGED budgets
           ELSE /\ result' = NoExc
                /\ budgets' = Append(budgets,
                       [made.obj EXCEPT !.spent_amount = ExpensesOf(transactions, made.obj.category)])

\* FinanceManager.add_budget
add_budget(category, allocated_amount, period) ==
    LET made == Budget_init(category, allocated_amount, period)
    IN  /\ lastOp' = "add_budget"
        /\ output' = <<>>
        /\ UNCHANGED <<transactions, transaction_file, budget_file>>
        /\ IF \E i \in 1..Len(budgets) : Str(budgets[i].category) = category
           THEN /\ result' = Raise("ValueError", "Budget for category already exists")
                /\ UNCHANGED budgets
           ELSE IF made.exc # "none"
           THEN /\ result' = Raise(made.exc, made.msg)
                /\ UNCHANGED budgets
           ELSE /\ result' = NoExc
                /\ budgets' = Append(budgets, made.obj)

\* FinanceManager.save_transactions
\* the rows save_transactions writes for a list of transactions
csv_rows(txs) == <<Header>> \o [k \in 1..Len(txs) |-> csv_row(txs[k])]

save_transactions(io) ==
    LET rows == csv_rows(transactions)
    IN  /\ lastOp' = "save_transactions"
        /\ result' = NoExc
        /\ UNCHANGED <<transactions, budgets, budget_file>>
        /\ IF io.fails = "never"
           THEN /\ output' = <<>>
                /\ transaction_file' = FileOf(rows)
           ELSE /\ output' = <<Say("Error saving transactions", "OSError")>>
                /\ IF io.fails = "open"
                   THEN UNCHANGED transaction_file
                   \* open(file, 'w') has emptied or created the file
                   ELSE transaction_file' = FileOf(WrittenBeforeFailure(rows, io))

\* FinanceManager.load_transactions
load_transactions(io) ==
    /\ lastOp' = "load_transactions"
    /\ result' = NoExc
    /\ UNCHANGED <<budgets, transaction_file, budget_file>>
    /\ IF ~transaction_file.exists \/ io.fails = "exists"
       THEN /\ transactions' = <<>>
            /\ output' = <<>>
       ELSE IF io.fails = "open"
       THEN /\ transactions' = <<>>
            /\ output' = <<Say("Error loading transactions", "OSError")>>
       ELSE LET \* the lines the reader gets before the end of file or the error
                rows == transaction_file.rows
                got == IF io.fails = "transfer" /\ io.lines < Len(rows)
                       THEN SubSeq(rows, 1, io.lines) ELSE rows
                failed == IF io.fails = "transfer"
                          THEN <<Say("Error loading transactions", "OSError")>> ELSE <<>>
                loaded == IF got = <<>> THEN [txs |-> <<>>, out |-> <<>>]
                          ELSE load_rows(Tail(got), <<>>, <<>>)
            IN  /\ transactions' = loaded.txs
                /\ output' = loaded.out \o failed

\* FinanceManager.save_budgets
save_budgets(io) ==
    LET budget_data == [k \in 1..Len(budgets) |-> Budget_get_details(budgets[k])]
    IN  /\ lastOp' = "save_budgets"
        /\ result' = NoExc
        /\ UNCHANGED <<transactions, budgets, transaction_file>>
        /\ IF io.fails = "never"
           THEN /\ output' = <<>>
                /\ budget_file' = FileOf(budget_data)
           ELSE /\ output' = <<Say("Error saving budgets", "OSError")>>
                /\ IF io.fails = "open"
                   THEN UNCHANGED budget_file
                   \* open(file, 'w') has emptied or created the file
                   ELSE budget_file' = TruncatedJsonFile

\* mutant: load_budgets without self.budgets.clear(): the stored budgets are
\* appended to the ones in memory
load_budgets_without_clear(io) ==
    /\ lastOp' = "load_budgets"
    /\ UNCHANGED <<transactions, transaction_file, budget_file>>
    /\ IF ~budget_file.exists \/ io.fails = "exists"
       THEN /\ budgets' = budgets
            /\ result' = NoExc
            /\ output' = <<>>
       ELSE IF io.fails # "never"
       THEN /\ budgets' = budgets
            /\ result' = NoExc
            /\ output' = <<Say("Error loading budgets", "OSError")>>
       ELSE IF budget_file = TruncatedJsonFile
       THEN /\ budgets' = budgets
            /\ result' = Raise("ValueError", "JSONDecodeError")
            /\ output' = <<>>
       ELSE LET loaded == load_records(budget_file.rows, budgets, <<>>)
            IN  /\ budgets' = loaded.buds
                /\ result' = loaded.exc
                /\ output' = loaded.out

\* FinanceManager.load_budgets
load_budgets(io) ==
    /\ lastOp' = "load_budgets"
    /\ UNCHANGED <<transactions, transaction_file, budget_file>>
    /\ IF ~budget_file.exists \/ io.fails = "exists"
       THEN /\ budgets' = <<>>
            /\ result' = NoExc
            /\ output' = <<>>
       \* open fails, or json.load's read of the whole file does
       ELSE IF io.fails # "never"
       THEN /\ budgets' = <<>>
            /\ result' = NoExc
            /\ output' = <<Say("Error loading budgets", "OSError")>>
       \* json.load raises JSONDecodeError, a ValueError no handler catches
       ELSE IF budget_file = TruncatedJsonFile
       THEN /\ budgets' = <<>>
            /\ result' = Raise("ValueError", "JSONDecodeError")
            /\ output' = <<>>
       ELSE LET loaded == load_records(budget_file.rows, <<>>, <<>>)
            IN  /\ budgets' = loaded.buds
                /\ result' = loaded.exc
                /\ output' = loaded.out

\* ----------------------------------------------------------------- driver
\* Arguments the caller passes.  Valid ones are a product of small sets; the
\* invalid ones each break one rule of a constructor.
Day1 == "2025-06-25"

TxArgsOf(dates, types, cats, amounts, descs) ==
    { <<d, Str(ty), Str(c), Num(a), Str(ds)>> :
        d \in dates, ty \in types, c \in cats, a \in amounts, ds \in descs }

\* What the callers of the full ledger pass: an expense, and a budget for its
\* category or for another one.  A second add_budget for a category is the
\* refused call here; calls with invalid arguments, which change nothing, are
\* made in the ledger without persistence.
TxArgs == TxArgsOf({Dt(Day1, 0)}, {"expense"}, {"Food"}, {1}, {""})

BudgetArgs ==
    { <<Str("Food"), Num(2), Str("June 2025")>>,
      <<Str("Rent"), Num(1), Str("")>> }

SpentWithinBound(buds) == \A i \in 1..Len(buds) : buds[i].spent_amount <= MaxSpent

\* the state after construction with no data files on disk
Init ==
    /\ transactions = <<>>
    /\ budgets = <<>>
    /\ transaction_file = AbsentFile
    /\ budget_file = AbsentFile
    /\ lastOp = "init"
    /\ result = NoExc
    /\ output = <<>>

AddTransaction ==
    /\ Len(transactions) < MaxHeldTx
    /\ \E a \in TxArgs : add_transaction(a[1], a[2], a[3], a[4], a[5])
    /\ SpentWithinBound(budgets')

AddBudget == \E a \in BudgetArgs : add_budget(a[1], a[2], a[3])

\* save_transactions, a failing write stopping at any character
SaveTransactions == \E io \in WriteOutcomes(csv_rows(transactions)) : save_transactions(io)

LoadTransactions ==
    \E io \in ReadOutcomes(Len(transaction_file.rows)) : load_transactions(io)

\* json.load reads the file in one piece
SaveBudgets == \E io \in JsonWriteOutcomes : save_budgets(io)

LoadBudgets == \E io \in ReadOutcomes(0) : load_budgets(io)

Next ==
    \/ AddTransaction
    \/ AddBudget
    \/ SaveTransactions
    \/ LoadTransactions
    \/ SaveBudgets
    \/ LoadBudgets

Spec == Init /\ [][Next]_vars

\* --------------------------------------------- round trip of transactions
BoundedSeq(S, n) == UNION { [1..k -> S] : k \in 0..n }

Day2 == "2025-07-01"

\* valid transactions of every shape the constructor accepts: a datetime with
\* or without a time of day, a date string, a carriage return in the text
RoundTripArgs ==
    TxArgsOf({Dt(Day1, 0), Dt(Day1, 630), Str("2025-7-1")}, {"income"},
             {"Food"}, {0, 2}, {"", "a\rb"})

RoundTripTxs == { Transaction_init(a[1], a[2], a[3], a[4], a[5]).obj : a \in RoundTripArgs }

\* a ledger holding any bounded sequence of valid transactions, nothing saved
InitRoundTrip ==
    /\ transactions \in BoundedSeq(RoundTripTxs, MaxTx)
    /\ budgets = <<>>
    /\ transaction_file = AbsentFile
    /\ budget_file = AbsentFile
    /\ lastOp = "init"
    /\ result = NoExc
    /\ output = <<>>

NextRoundTrip == SaveTransactions \/ LoadTransactions

SpecRoundTrip == InitRoundTrip /\ [][NextRoundTrip]_vars

\* ------------------------------------------------ files written by others
GoodRow1 == <<"2025-06-25", "expense", "Food", "1.0", "Groceries">>
GoodRow2 == <<"2025-7-1", "income", "Rent", " 2.0 ", "">>

ExternalRows ==
    { GoodRow1, GoodRow2,
      <<"2025-06-25", "expense", "Food">>,
      <<>>,
      <<"2025-06-25", "expense", "Food", "1.0", "Groceries", "extra">>,
      <<"25/06/2025", "expense", "Food", "1.0", "">>,
      <<"2025-06-25", "expense", "Food", "abc", "">>,
      <<"2025-06-25", "refund", "Food", "1.0", "">>,
      <<"2025-06-25", "expense", " ", "1.0", "">>,
      <<"2025-06-25", "income", "Food", "-1.0", "">> }

ExternalTransactionFiles ==
    { FileOf(<<>>), FileOf(<<GoodRow1, GoodRow2>>) }
    \cup { FileOf(<<Header>> \o rows) : rows \in BoundedSeq(ExternalRows, MaxRows) }

GoodRecord1 ==
    [category |-> Str("Food"), allocated_amount |-> Num(2), spent_amount |-> Num(1),
     remaining |-> Num(1), period |-> Str("June 2025")]
GoodRecord2 ==
    [category |-> Str("Rent"), allocated_amount |-> Num(1), spent_amount |-> Num(3),
     remaining |-> Num(7), period |-> Str("")]
GoodRecord3 ==
    [category |-> Str("Food"), allocated_amount |-> Num(3), spent_amount |-> Num(0),
     period |-> Str("")]

\* spent_amount is a number in every record here: load_budgets stores it as is
ExternalRecords ==
    { GoodRecord1, GoodRecord2, GoodRecord3,
      [allocated_amount |-> Num(2), spent_amount |-> Num(1), period |-> Str("")],
      [category |-> Str("Food"), spent_amount |-> Num(1), period |-> Str("")],
      [category |-> Str("Food"), allocated_amount |-> Num(2), period |-> Str("")],
      [category |-> Str("Food"), allocated_amount |-> Num(2), spent_amount |-> Num(1)],
      [category |-> Str(""), allocated_amount |-> Num(2), spent_amount |-> Num(1),
       period |-> Str("")],
      [category |-> Str("Food"), allocated_amount |-> Num(0), spent_amount |-> Num(0),
       period |-> Str("")],
      [category |-> Str("Food"), allocated_amount |-> Str("500"), spent_amount |-> Num(0),
       period |-> Str("")],
      [category |-> Str("Food"), allocated_amount |-> Num(2), spent_amount |-> Num(0),
       period |-> None] }

ExternalBudgetFiles ==
    {TruncatedJsonFile} \cup { FileOf(data) : data \in BoundedSeq(ExternalRecords, MaxRows) }

\* an empty ledger, and one data file that something else has written
InitLoad ==
    /\ transactions = <<>>
    /\ budgets = <<>>
    /\ \/ transaction_file \in ExternalTransactionFiles /\ budget_file = AbsentFile
       \/ transaction_file = AbsentFile /\ budget_file \in ExternalBudgetFiles
    /\ lastOp = "init"
    /\ result = NoExc
    /\ output = <<>>

NextLoad == LoadTransactions \/ LoadBudgets

SpecLoad == InitLoad /\ [][NextLoad]_vars

\* ------------------------------------------- Budget.add_expense on its own
ExpenseTxs ==
    { Transaction_init(a[1], a[2], a[3], a[4], a[5]).obj :
        a \in TxArgsOf({Dt(Day1, 0)}, {"income", "expense"}, {"Food", "Rent"}, {0, 1, 2}, {""}) }

\* budgets as add_budget and in-budget expenses leave them
BudgetObjects ==
    { b \in { [Budget_init(Str(c), Num(al), Str("")).obj EXCEPT !.spent_amount = sp] :
                c \in {"Food", "Rent"}, al \in {1, 2}, sp \in 0..MaxSpent } :
        b.spent_amount <= b.allocated_amount }

\* budgets[i].add_expense(tx), called by a holder of the budget object
Budget_add_expense_call(i, tx) ==
    LET added == Budget_add_expense(budgets[i], tx)
    IN  /\ lastOp' = "Budget.add_expense"
        /\ result' = Raise(added.exc, added.msg)
        /\ output' = <<>>
        /\ budgets' = [budgets EXCEPT ![i] = added.obj]
        /\ UNCHANGED <<transactions, transaction_file, budget_file>>

\* a ledger holding one or two budgets of different categories
InitBudget ==
    /\ transactions = <<>>
    /\ budgets \in { bs \in BoundedSeq(BudgetObjects, 2) :
                       /\ bs # <<>>
                       /\ \A i, j \in 1..Len(bs) : i # j => bs[i].category # bs[j].category }
    /\ transaction_file = AbsentFile
    /\ budget_file = AbsentFile
    /\ lastOp = "init"
    /\ result = NoExc
    /\ output = <<>>

BudgetAddExpense ==
    /\ \E i \in 1..Len(budgets) : \E tx \in ExpenseTxs : Budget_add_expense_call(i, tx)
    /\ SpentWithinBound(budgets')

NextBudget == BudgetAddExpense

SpecBudget == InitBudget /\ [][NextBudget]_vars

\* ------------------------------------------- the ledger without persistence
\* what the callers pass when only add_transaction and add_budget are used
LedgerTxArgs ==
    TxArgsOf({Dt(Day1, 0)}, {"expense"}, {"Food"}, {1, 2}, {""})
    \cup TxArgsOf({Str("2025-7-1")}, {"expense"}, {"Rent"}, {1}, {""})
    \cup TxArgsOf({Dt(Day2, 630)}, {"income"}, {"Food"}, {2}, {"Paycheck"})
    \cup { <<Dt(Day1, 0), Str("expense"), Str("Food"), Num(-1), Str("")>>,
           <<Dt(Day1, 0), Str("income"), Str("Food"), Num(-1), Str("")>>,
           <<Dt(Day1, 0), Str("refund"), Str("Food"), Num(1), Str("")>>,
           <<Dt(Day1, 0), Str("Expense"), Str("Food"), Num(1), Str("")>>,
           <<Dt(Day1, 0), Str("expense"), Str(""), Num(1), Str("")>>,
           <<Dt(Day1, 0), Str("expense"), Str(" "), Num(1), Str("")>>,
           <<Dt(Day1, 0), Str("expense"), Str("Food"), Str("1.0"), Str("")>> }

LedgerBudgetArgs ==
    { <<Str("Food"), Num(2), Str("June 2025")>>,
      <<Str("Rent"), Num(1), Str("")>>,
      <<Str("Rent"), Num(0), Str("")>> }

AddLedgerTransaction ==
    /\ Len(transactions) < MaxLedgerTx
    /\ \E a \in LedgerTxArgs : add_transaction(a[1], a[2], a[3], a[4], a[5])

AddLedgerBudget == \E a \in LedgerBudgetArgs : add_budget(a[1], a[2], a[3])

NextLedger == AddLedgerTransaction \/ AddLedgerBudget

SpecLedger == Init /\ [][NextLedger]_vars

\* ----------------------------------------------------------------- claims
HasBudget(buds, c) == \E i \in 1..Len(buds) : buds[i].category = c
SpentOf(buds, c) == buds[FirstBudget(buds, c)].spent_amount
BudgetCategories == {"Food", "Rent", "Misc"}

IoMessages ==
    {"Error saving transactions", "Error loading transactions",
     "Error saving budgets", "Error loading budgets"}
IoErrorReported(out) == \E k \in 1..Len(out) : out[k].msg \in IoMessages

\* C1: a persistence operation (save_transactions, save_budgets,
\* load_transactions, load_budgets) that reports an I/O error leaves the
\* in-memory transaction sequence and budget set exactly as they were.
C1_FailedIoKeepsMemory ==
    [][IoErrorReported(output') => (transactions' = transactions /\ budgets' = budgets)]_vars

\* C4: save_budgets followed by load_budgets yields the same budgets, with the
\* same category, allocated_amount, spent_amount and period, and each reloaded
\* budget's remaining is allocated_amount - spent_amount.
C4_BudgetRoundTrip ==
    [][(lastOp = "save_budgets" /\ output = <<>> /\ load_budgets(Ok)) =>
        /\ result' = NoExc
        /\ Len(budgets') = Len(budgets)
        /\ \A i \in 1..Len(budgets) :
            /\ budgets'[i].category = budgets[i].category
            /\ budgets'[i].allocated_amount = budgets[i].allocated_amount
            /\ budgets'[i].spent_amount = budgets[i].spent_amount
            /\ budgets'[i].period = budgets[i].period
            /\ Budget_get_details(budgets'[i]).remaining.v =
                   budgets[i].allocated_amount - budgets[i].spent_amount]_vars

\* a reload that brought back two budgets, one of them with money spent
C4_Witness ==
    /\ lastOp = "load_budgets"
    /\ result = NoExc
    /\ Len(budgets) = 2
    /\ \E i \in 1..Len(budgets) : budgets[i].spent_amount > 0
    /\ budget_file = FileOf([k \in 1..Len(budgets) |-> Budget_get_details(budgets[k])])

\* C5: add_budget for a category that already has a budget fails with the
\* duplicate-category error and leaves the budget set unchanged.
C5_DuplicateBudgetRejected ==
    [][\A a \in LedgerBudgetArgs :
        (a[1].t = "str" /\ HasBudget(budgets, a[1].v) /\ add_budget(a[1], a[2], a[3])) =>
            /\ result' = Raise("ValueError", "Budget for category already exists")
            /\ budgets' = budgets]_vars

C5_Witness ==
    /\ lastOp = "add_budget"
    /\ result = Raise("ValueError", "Budget for category already exists")
    /\ Len(budgets) = 2
    /\ \E i \in 1..Len(budgets) : budgets[i].spent_amount > 0

\* C7: add_transaction of a valid expense whose category has no budget is not
\* an error: the transaction is appended at the end, a notice is printed and
\* every budget is unchanged.
C7_ExpenseWithoutBudget ==
    [][\A a \in LedgerTxArgs :
        (/\ Transaction_init(a[1], a[2], a[3], a[4], a[5]).exc = "none"
         /\ a[2].v = "expense"
         /\ ~HasBudget(budgets, a[3].v)
         /\ add_transaction(a[1], a[2], a[3], a[4], a[5])) =>
            /\ result' = NoExc
            /\ Len(transactions') = Len(transactions) + 1
            /\ SubSeq(transactions', 1, Len(transactions)) = transactions
            /\ transactions'[Len(transactions')].category = a[3].v
            /\ transactions'[Len(transactions')].transaction_type = "expense"
            /\ transactions'[Len(transactions')].amount = a[4].v
            /\ output' = <<Say("No budget found for category", a[3].v)>>
            /\ budgets' = budgets]_vars

\* an unbudgeted expense recorded while another category's budget exists
C7_Witness ==
    /\ lastOp = "add_transaction"
    /\ result = NoExc
    /\ output = <<Say("No budget found for category", "Food")>>
    /\ Len(transactions) = 2
    /\ budgets # <<>>

\* C8: add_transaction with amount < 0, a blank category or a type other than
\* "income" / "expense" fails with a validation error and leaves the ledger
\* unchanged.
BadTxArgs(a) ==
    \/ a[4].t = "num" /\ a[4].v < 0
    \/ a[3].t = "str" /\ a[3].v \in {"", " ", "\t"}
    \/ a[2].t = "str" /\ a[2].v \notin {"income", "expense"}

C8_InvalidTransactionRejected ==
    [][\A a \in LedgerTxArgs :
        (BadTxArgs(a) /\ add_transaction(a[1], a[2], a[3], a[4], a[5])) =>
            /\ result'.exc = "ValueError"
            /\ transactions' = transactions
            /\ budgets' = budgets]_vars

C8_Witness ==
    /\ lastOp = "add_transaction"
    /\ result.exc = "ValueError"
    /\ transactions # <<>>
    /\ \E i \in 1..Len(budgets) : budgets[i].spent_amount > 0

\* C10 as claimed: over any sequence of ledger operations, loads included, the
\* spent_amount of a category's budget never becomes smaller.
C10_SpentNeverDecreases ==
    [][\A c \in BudgetCategories :
        (HasBudget(budgets, c) /\ HasBudget(budgets', c)) =>
            SpentOf(budgets', c) >= SpentOf(budgets, c)]_vars

\* C10 amended: every operation other than load_budgets keeps each budget and
\* never makes its spent_amount smaller.
C10_SpentNeverDecreasesWithoutReload ==
    [][lastOp' # "load_budgets" =>
        \A c \in BudgetCategories :
            HasBudget(budgets, c) =>
                /\ HasBudget(budgets', c)
                /\ SpentOf(budgets', c) >= SpentOf(budgets, c)]_vars

\* an expense has raised a budget's spent_amount to the driver's cap
C10_Witness ==
    /\ lastOp = "add_transaction"
    /\ \E i \in 1..Len(budgets) : budgets[i].spent_amount = MaxSpent

\* C3: save_transactions followed by load_transactions yields a sequence of
\* the same length and order with identical (date, type, category, amount,
\* description) tuples, for any sequence of valid transactions.
C3_TransactionRoundTrip ==
    [][(lastOp = "save_transactions" /\ output = <<>> /\ load_transactions(Ok)) =>
        /\ Len(transactions') = Len(transactions)
        /\ \A i \in 1..Len(transactions) :
            /\ transactions'[i].date = transactions[i].date
            /\ transactions'[i].transaction_type = transactions[i].transaction_type
            /\ transactions'[i].category = transactions[i].category
            /\ transactions'[i].amount = transactions[i].amount
            /\ transactions'[i].description = transactions[i].description]_vars

\* what the stored array of a readable budget file holds, per record
RequiredKeys == {"category", "allocated_amount", "spent_amount", "period"}

ValidRecord(d) ==
    /\ RequiredKeys \subseteq DOMAIN d
    /\ d["category"].t = "str" /\ d["category"].v \notin {"", " ", "\t"}
    /\ d["allocated_amount"].t = "num" /\ d["allocated_amount"].v > 0
    /\ d["period"].t = "str"

InvalidRecord(d) == ~ValidRecord(d)

RecordBudget(d) ==
    [category |-> d["category"].v, allocated_amount |-> d["allocated_amount"].v,
     spent_amount |-> d["spent_amount"].v, period |-> d["period"].v]

\* C2: load_budgets never aborts because of one bad record: every record that
\* lacks a required key or fails Budget validation is skipped with a warning,
\* and every other record of the array is loaded, in order.
C2_LoadBudgetsSkipsBadRecords ==
    [][(/\ budget_file.exists
        /\ budget_file # TruncatedJsonFile
        /\ load_budgets(Ok)) =>
           LET valid == SelectSeq(budget_file.rows, ValidRecord)
               invalid == SelectSeq(budget_file.rows, InvalidRecord)
           IN  /\ result' = NoExc
               /\ budgets' = [k \in 1..Len(valid) |-> RecordBudget(valid[k])]
               /\ output' = [k \in 1..Len(invalid) |->
                               Say("Skipping invalid budget entry", invalid[k])]]_vars

\* C6: Budget.add_expense with an expense of the budget's category adds exactly
\* the amount to spent_amount, never lowering it and whatever allocated_amount
\* is; with an income or another category it fails with a validation error and
\* leaves spent_amount as it was.
C6_AddExpense ==
    [][\A i \in 1..Len(budgets) : \A tx \in ExpenseTxs :
        Budget_add_expense_call(i, tx) =>
            IF tx.transaction_type = "expense" /\ tx.category = budgets[i].category
            THEN /\ result' = NoExc
                 /\ budgets'[i].spent_amount = budgets[i].spent_amount + tx.amount
                 /\ budgets'[i].spent_amount >= budgets[i].spent_amount
            ELSE /\ result'.exc = "ValueError"
                 /\ budgets'[i].spent_amount = budgets[i].spent_amount]_vars

\* an accepted expense has taken a budget past its allocated_amount
C6_Witness ==
    /\ lastOp = "Budget.add_expense"
    /\ result = NoExc
    /\ \E i \in 1..Len(budgets) : budgets[i].spent_amount > budgets[i].allocated_amount

\* the rows after the header of a readable transaction file
DataRows == IF transaction_file.rows = <<>> THEN <<>> ELSE Tail(transaction_file.rows)

ParsableRow(row) ==
    /\ Len(row) = 5
    /\ \E p \in DateTable : p[1] = row[1]
    /\ \E p \in FloatTable : p[1] = row[4]

UnparsableRow(row) == ~ParsableRow(row)

WellFormedRow(row) ==
    /\ ParsableRow(row)
    /\ row[2] \in {"income", "expense"}
    /\ row[3] \notin {"", " ", "\t"}
    /\ \A p \in FloatTable : p[1] = row[4] => p[2] >= 0

MalformedRow(row) == ~WellFormedRow(row)

RowTransaction(row) ==
    [date |-> [ymd |-> (CHOOSE p \in DateTable : p[1] = row[1])[2], tod |-> 0],
     transaction_type |-> row[2],
     category |-> row[3],
     amount |-> (CHOOSE p \in FloatTable : p[1] = row[4])[2],
     description |-> row[5]]

LoadedTransactionFile ==
    lastOp = "load_transactions" /\ transaction_file.exists /\ ~IoErrorReported(output)

\* load_transactions returns at line 81: the file is not on disk, or
\* os.path.exists does not see it
NotFound(io) == ~transaction_file.exists \/ io = ExistsFails

\* C9 as claimed: the rows skipped with a warning are those whose field count
\* is not 5 or whose date or amount cannot be parsed, and the loaded sequence
\* is exactly the other rows, in file order; a missing file loads as empty.
C9_LoadSkipsUnparsableRows ==
    [][/\ (transaction_file.exists /\ load_transactions(Ok)) =>
            LET good == SelectSeq(DataRows, ParsableRow)
                bad == SelectSeq(DataRows, UnparsableRow)
            IN  /\ transactions' = [k \in 1..Len(good) |-> RowTransaction(good[k])]
                /\ output' = [k \in 1..Len(bad) |->
                                Say("Skipping invalid transaction row", bad[k])]
       /\ \A io \in ReadOutcomes(Len(transaction_file.rows)) :
            (NotFound(io) /\ load_transactions(io)) =>
                (transactions' = <<>> /\ output' = <<>> /\ result' = NoExc)]_vars

\* C9 amended: a row is also skipped with a warning when it fails Transaction
\* validation (type other than income / expense, blank category, negative
\* amount); the loaded sequence is exactly the remaining rows, in file order.
\* A file that is missing, or that os.path.exists does not see, loads as empty.
C9_LoadSkipsMalformedRows ==
    [][/\ (transaction_file.exists /\ load_transactions(Ok)) =>
            LET good == SelectSeq(DataRows, WellFormedRow)
                bad == SelectSeq(DataRows, MalformedRow)
            IN  /\ result' = NoExc
                /\ transactions' = [k \in 1..Len(good) |-> RowTransaction(good[k])]
                /\ output' = [k \in 1..Len(bad) |->
                                Say("Skipping invalid transaction row", bad[k])]
       /\ \A io \in ReadOutcomes(Len(transaction_file.rows)) :
            (NotFound(io) /\ load_transactions(io)) =>
                (transactions' = <<>> /\ output' = <<>> /\ result' = NoExc)]_vars

\* a file with a malformed row ahead of a well-formed one has been loaded
C9_Witness ==
    /\ LoadedTransactionFile
    /\ Len(DataRows) = 2
    /\ MalformedRow(DataRows[1])
    /\ WellFormedRow(DataRows[2])
    /\ transactions = <<RowTransaction(DataRows[2])>>
    /\ Len(output) = 1

\* C11: in every state reachable from an empty ledger by add_budget,
\* add_transaction, save and load operations, the budget file being written
\* by save_budgets only, no two budgets have the same category.
C11_UniqueBudgetCategories ==
    \A i, j \in 1..Len(budgets) : i # j => budgets[i].category # budgets[j].category

\* two budgets are back in memory after a reload of what save_budgets wrote
C11_Witness ==
    /\ lastOp = "load_budgets"
    /\ Len(budgets) = 2
    /\ budget_file.exists
    /\ ~IoErrorReported(output)

\* what one recorded transaction adds to the budget of a category
Contribution(tx, category) ==
    IF tx.transaction_type = "expense" /\ tx.category = category THEN tx.amount ELSE 0

\* the sum of the contributions of the transactions after position k
RECURSIVE SumAfter(_, _, _)
SumAfter(txs, k, category) ==
    IF k >= Len(txs) THEN 0
    ELSE SumAfter(txs, k + 1, category) + Contribution(txs[k + 1], category)

\* C12: with add_budget and add_transaction only, each budget's spent_amount is
\* the sum of the amounts of the expenses of exactly its category recorded
\* after the budget was created: a new budget starts at zero whatever was
\* recorded before it, every recorded transaction adds its amount to the budget
\* of its category if it is an expense and nothing otherwise, a refused call
\* changes nothing, and remaining is allocated_amount minus that sum.
C12_SpentIsSumOfLaterExpenses ==
    [][/\ (lastOp' = "add_budget" /\ result' = NoExc) =>
            /\ Len(budgets') = Len(budgets) + 1
            /\ SubSeq(budgets', 1, Len(budgets)) = budgets
            /\ budgets'[Len(budgets')].spent_amount = 0
            /\ transactions' = transactions
       /\ (lastOp' = "add_transaction" /\ result' = NoExc) =>
            /\ Len(transactions') = Len(transactions) + 1
            /\ SubSeq(transactions', 1, Len(transactions)) = transactions
            /\ Len(budgets') = Len(budgets)
            /\ \A i \in 1..Len(budgets) :
                /\ budgets'[i].category = budgets[i].category
                /\ budgets'[i].allocated_amount = budgets[i].allocated_amount
                /\ budgets'[i].spent_amount =
                       budgets[i].spent_amount
                       + Contribution(transactions'[Len(transactions')], budgets[i].category)
       /\ result' # NoExc => (budgets' = budgets /\ transactions' = transactions)
       /\ \A i \in 1..Len(budgets') :
            /\ \E k \in 0..Len(transactions') :
                 budgets'[i].spent_amount = SumAfter(transactions', k, budgets'[i].category)
            /\ Budget_get_details(budgets'[i]).remaining.v =
                   budgets'[i].allocated_amount - budgets'[i].spent_amount]_vars

\* a Food budget created after a first Food expense and overspent by later
\* ones, with an income and a Rent expense recorded as well
C12_Witness ==
    /\ Len(transactions) = 4
    /\ \E i \in 1..Len(budgets) :
        /\ budgets[i].category = "Food"
        /\ budgets[i].spent_amount = 2
        /\ SumAfter(transactions, 0, "Food") = 3
        /\ transactions[1].category = "Food" /\ transactions[1].transaction_type = "expense"
    /\ \E k \in 1..Len(transactions) : transactions[k].transaction_type = "income"
    /\ \E k \in 1..Len(transactions) : transactions[k].category = "Rent"

====
